---- MODULE Spec2Model ----
(***************************************************************************)
(* Command objects of o3seespy: the constructors of                        *)
(* command/uniaxial_material/other.py, command/uniaxial_material/          *)
(* standard.py and command/layer.py, acting on one OpenseesInstance (osi). *)
(*                                                                         *)
(* A constructor coerces its arguments, advances a counter of osi, reads   *)
(* its tag, builds the token list _parameters and hands it to to_process.  *)
(* Python values are modelled as tagged pairs <<kind, value>>; a float is  *)
(* a decimal <<mantissa, exponent>> (PyFloat(15, -1) is 1.5), an int an    *)
(* integer, so that float() and int() are not the identity.                *)
(*                                                                         *)
(* Spec is one caller using one instance. SpecCtx adds a second instance,  *)
(* SpecAlias a caller that keeps and changes the lists it passed,          *)
(* SpecThreads two threads constructing on the same instance, SpecRuns two *)
(* runs side by side and SpecSite one call of site_response of             *)
(* examples/site_response_analysis.py.                                     *)
(***************************************************************************)
EXTENDS Integers, Sequences, FiniteSets, TLC

VARIABLES
    osi,      \* the OpenseesInstance: its attributes n_mat, n_mats, mats
    calls,    \* every constructor call so far, in call order, with its outcome
    sent,     \* the token lists handed to to_process, in order
    script,   \* the commands recorded for osi, one line of text per command
    cur,      \* the instance the caller passes as osi: "A" or "B"
    parked,   \* the state of the instance that is not passed at the moment
    heap,     \* the lists the caller keeps a name for
    threads,  \* per thread, the constructor call it is in and where
    raced,    \* a thread advanced n_mat between another's increment and read
    site      \* the call of site_response: where it is, its names, the engine's time

vars == <<osi, calls, sent, script, cur, parked, heap, threads, raced, site>>

\* ------------------------------------------------------------ bounds
MaxCalls == 2
MaxListLen == 3

\* ------------------------------------------------------ Python values
None == <<"none", 0>>
Omitted == <<"omitted", 0>>          \* an argument the caller did not pass
NoAttr == <<"noattr", 0>>            \* an attribute the object does not have
PyInt(n) == <<"int", n>>

\* a float m * 10^e, kept normalised: the mantissa does not end in 0
RECURSIVE Norm(_, _)
Norm(m, e) ==
    IF m = 0 THEN <<0, 0>>
    ELSE IF m % 10 = 0 THEN Norm(m \div 10, e + 1) ELSE <<m, e>>

PyFloat(m, e) == <<"float", Norm(m, e)>>

RECURSIVE Pow10(_)
Pow10(n) == IF n = 0 THEN 1 ELSE 10 * Pow10(n - 1)
PyStr(s) == <<"str", s>>
PyList(s) == <<"list", s>>
PyObj(i) == <<"obj", i>>             \* the object built by the i-th call
TypeError == <<"raise", "TypeError">>
AttributeError == <<"raise", "AttributeError">>

IsRaise(x) == x[1] = "raise"

\* the value a parameter takes: the argument, or the default when omitted
Default(x, d) == IF x = Omitted THEN d ELSE x

\* the integer part of m * 10^e, towards zero
Trunc(m, e) ==
    IF e >= 0 THEN m * Pow10(e)
    ELSE IF m >= 0 THEN m \div Pow10(-e) ELSE -((-m) \div Pow10(-e))

\* float(x) of a None, int or float argument
float(x) ==
    CASE x[1] = "float" -> x
      [] x[1] = "int" -> PyFloat(x[2], 0)
      [] x[1] = "raise" -> x
      [] OTHER -> TypeError

\* int(x) of a None, int or float argument
int(x) ==
    CASE x[1] = "int" -> x
      [] x[1] = "float" -> PyInt(Trunc(x[2][1], x[2][2]))
      [] x[1] = "raise" -> x
      [] OTHER -> TypeError

\* `if x is None: self.x = None else: self.x = float(x)`
OptFloat(x) == IF x = None THEN None ELSE float(x)

\* the coercions of a constructor's head, in order: "f" float(), "i" int(),
\* "r" stored as given
Coerce(kinds, a) ==
    [i \in 1..Len(kinds) |->
        CASE kinds[i] = "f" -> float(a[i])
          [] kinds[i] = "i" -> int(a[i])
          [] OTHER -> a[i]]

\* the first exception among the values of s, NoAttr when none raises
FirstRaise(s) ==
    IF \E i \in 1..Len(s) : IsRaise(s[i])
    THEN s[CHOOSE i \in 1..Len(s) : IsRaise(s[i]) /\ \A j \in 1..(i-1) : ~IsRaise(s[j])]
    ELSE NoAttr

\* mutant: the list is one token, not its elements
UnpackAsOneToken(x) == IF x[1] = "list" THEN <<x>> ELSE <<TypeError>>

\* `*x` in a list display: the elements of a list, TypeError otherwise
Unpack(x) == IF x[1] = "list" THEN x[2] ELSE <<TypeError>>

\* ------------------------------------------------- constructor outcomes
Ok(o, tag, params) == [res |-> "ok", osi |-> o, tag |-> tag, params |-> params]
Raise(o, exc) == [res |-> exc[2], osi |-> o, tag |-> None, params |-> <<>>]

\* mutant: a reference is encoded by the identity of the object, not its tag
TagOfIdentity(x) == IF x[1] = "obj" THEN PyInt(x[2]) ELSE AttributeError

\* other.tag / curve.tag: the tag of a constructed object
TagOf(x) == IF x[1] = "obj" THEN calls[x[2]].tag ELSE AttributeError

\* mutant: the increment is left out
IncNMatSkipped(o) == o

\* `osi.n_mat += 1`
IncNMat(o) == [o EXCEPT !.n_mat = @ + 1]

\* `self._tag = osi.n_mat`
ReadNMat(o) == PyInt(o.n_mat)

\* `osi.n_mats += 1`
IncNMats(o) == [o EXCEPT !.n_mats = @ + 1]

\* `self._tag = osi.mats`
ReadMats(o) == IF o.mats = NoAttr THEN AttributeError ELSE o.mats

\* mutant: the loop has no break and skips each None on its own
UpToFirstNoneNoBreak(s) == SelectSeq(s, LAMBDA x : x # None)

\* the loop over special_pms with `else: break`: the values up to the first None
UpToFirstNone(s) ==
    LET stops == {i \in 1..Len(s) : s[i] = None}
        k == IF stops = {} THEN Len(s) + 1
             ELSE CHOOSE i \in stops : \A j \in stops : i <= j
    IN  SubSeq(s, 1, k - 1)

\* the loop over special_pms without a break: every value that is not None
EveryNotNone(s) == SelectSeq(s, LAMBDA x : x # None)

\* `if x is not None: self._parameters += [flag, x]`
Flagged(flag, x) == IF x = None THEN <<>> ELSE <<PyStr(flag), x>>

\* mutant: the elements are appended without their flag
FlaggedPacketNoFlag(flag, x) == IF x = None THEN <<>> ELSE Unpack(x)

\* `if x is not None: self._parameters += [flag, *x]`
FlaggedPacket(flag, x) == IF x = None THEN <<>> ELSE <<PyStr(flag)>> \o Unpack(x)

\* mutant: the counter is advanced before the coercions
BuildCounterFirst(o, op, head, body) ==
    LET o1 == IncNMat(o)
        tag == ReadNMat(o1)
    IN  IF FirstRaise(head) # NoAttr THEN Raise(o1, FirstRaise(head))
        ELSE IF FirstRaise(body) # NoAttr THEN Raise(o1, FirstRaise(body))
        ELSE Ok(o1, tag, <<PyStr(op), tag>> \o body)

\* A constructor of other.py or layer.py after its coercions: head are the
\* coerced fields (an exception among them is raised before the counter is
\* touched), then the counter is advanced and the tag read, then the token
\* list is built from op_type, the tag and body(tag-independent tokens); an
\* exception among the tokens is raised with the counter already advanced.
Build(o, op, head, body) ==
    IF FirstRaise(head) # NoAttr THEN Raise(o, FirstRaise(head))
    ELSE LET o1 == IncNMat(o)
             tag == ReadNMat(o1)
         IN  IF FirstRaise(body) # NoAttr THEN Raise(o1, FirstRaise(body))
             ELSE Ok(o1, tag, <<PyStr(op), tag>> \o body)

\* n float() coercions in a row
Floats(n) == [i \in 1..n |-> "f"]

\* ------------------------------------------- other.py: the constructors
\* Each takes the osi record o and the arguments a in the order of the
\* signature (after osi), Omitted standing for an argument left out.

\* mutant: eta is appended only when the caller gave it
HardeningEtaIfGiven(o, a) ==
    LET c == Coerce(Floats(5), <<a[1], a[2], a[3], a[4], Default(a[5], PyFloat(0, 0))>>)
    IN  Build(o, "Hardening", c, IF a[5] = Omitted THEN SubSeq(c, 1, 4) ELSE c)

Hardening(o, a) ==
    LET c == Coerce(Floats(5), <<a[1], a[2], a[3], a[4], Default(a[5], PyFloat(0, 0))>>)
    IN  Build(o, "Hardening", c, c)

Cast(o, a) ==
    LET req == Coerce(<<"i">> \o Floats(9), SubSeq(a, 1, 10))
        a1 == OptFloat(Default(a[11], None))
        a2 == float(Default(a[12], PyFloat(1, 0)))
        a3 == OptFloat(Default(a[13], None))
        a4 == float(Default(a[14], PyFloat(1, 0)))
    IN  Build(o, "Cast", req \o <<a1, a2, a3, a4>>,
              req \o UpToFirstNone(<<a1, a2, a3, a4>>))

ViscousDamper(o, a) ==
    LET c == Coerce(<<"f", "f", "f", "f", "i", "f", "f", "i">>,
                    <<a[1], a[2], a[3], Default(a[4], PyFloat(0, 0)), Default(a[5], PyInt(1)),
                      Default(a[6], PyFloat(1, -6)), Default(a[7], PyFloat(1, -10)),
                      Default(a[8], PyInt(15))>>)
    IN  Build(o, "ViscousDamper", c, c)

BilinearOilDamper(o, a) ==
    LET c == Coerce(<<"f", "f", "f", "f", "f", "i", "f", "f", "i">>,
                    <<a[1], a[2], Default(a[3], PyFloat(1, 0)), Default(a[4], PyFloat(1, 0)),
                      Default(a[5], PyFloat(0, 0)), Default(a[6], PyInt(1)),
                      Default(a[7], PyFloat(1, -6)), Default(a[8], PyFloat(1, -10)),
                      Default(a[9], PyInt(15))>>)
    IN  Build(o, "BilinearOilDamper", c, c)

Bilin(o, a) ==
    LET c == Coerce(Floats(24), SubSeq(a, 1, 23) \o <<Default(a[24], PyFloat(0, 0))>>)
    IN  Build(o, "Bilin", c, c)

ModIMKPeakOriented(o, a) ==
    LET c == Coerce(Floats(23), a) IN Build(o, "ModIMKPeakOriented", c, c)

ModIMKPinching(o, a) ==
    LET c == Coerce(Floats(26), a) IN Build(o, "ModIMKPinching", c, c)

\* mutant: r1 and r2 change places in the token list
SAWSSwapped(o, a) ==
    LET c == Coerce(Floats(10), a)
    IN  Build(o, "SAWS", c, [c EXCEPT ![5] = c[6], ![6] = c[5]])

SAWS(o, a) ==
    LET c == Coerce(Floats(10), a) IN Build(o, "SAWS", c, c)

\* mutant: the tokens follow the order of the signature
BarSlipDeclarationOrder(o, a) ==
    LET c == Coerce(Floats(7) \o <<"i", "f", "f", "f">>,
                    SubSeq(a, 1, 10) \o <<Default(a[13], PyFloat(1, 0))>>)
        damage == Default(a[14], PyStr("Damage"))
        unit == Default(a[15], PyStr("psi"))
    IN  Build(o, "BarSlip", c, SubSeq(c, 1, 10) \o <<a[11], a[12], c[11], damage, unit>>)

\* the coercions run fc .. height, anc_lratio; the tokens put anc_lratio
\* before bs_flag and otype
BarSlip(o, a) ==
    LET c == Coerce(Floats(7) \o <<"i", "f", "f", "f">>,
                    SubSeq(a, 1, 10) \o <<Default(a[13], PyFloat(1, 0))>>)
        damage == Default(a[14], PyStr("Damage"))
        unit == Default(a[15], PyStr("psi"))
    IN  Build(o, "BarSlip", c, c \o <<a[11], a[12], damage, unit>>)

BondSP01(o, a) ==
    LET c == Coerce(Floats(6), a) IN Build(o, "Bond_SP01", c, c)

\* mutant: the -max block is appended before the -min block
FatigueMaxFirst(o, a) ==
    LET e0 == OptFloat(Default(a[2], None))
        m == OptFloat(Default(a[3], None))
        min == OptFloat(Default(a[4], None))
        max == OptFloat(Default(a[5], None))
    IN  Build(o, "Fatigue", <<e0, m, min, max>>,
              <<TagOf(a[1])>> \o Flagged("-E0", e0) \o Flagged("-m", m)
                  \o Flagged("-max", max) \o Flagged("-min", min))

Fatigue(o, a) ==
    LET e0 == OptFloat(Default(a[2], None))
        m == OptFloat(Default(a[3], None))
        min == OptFloat(Default(a[4], None))
        max == OptFloat(Default(a[5], None))
    IN  Build(o, "Fatigue", <<e0, m, min, max>>,
              <<TagOf(a[1])>> \o Flagged("-E0", e0) \o Flagged("-m", m)
                  \o Flagged("-min", min) \o Flagged("-max", max))

ImpactMaterial(o, a) ==
    LET c == Coerce(Floats(4), a) IN Build(o, "ImpactMaterial", c, c)

HyperbolicGapMaterial(o, a) ==
    LET c == Coerce(Floats(5), a) IN Build(o, "HyperbolicGapMaterial", c, c)

LimitState(o, a) ==
    LET c == Coerce(Floats(17), SubSeq(a, 1, 17))
        curve_type == int(a[19])
    IN  Build(o, "LimitState", c \o <<curve_type>>, c \o <<TagOf(a[18]), curve_type>>)

MinMax(o, a) ==
    LET min_strain == OptFloat(Default(a[2], None))
        max_strain == OptFloat(Default(a[3], None))
    IN  Build(o, "MinMax", <<min_strain, max_strain>>,
              <<TagOf(a[1])>> \o Flagged("-min", min_strain) \o Flagged("-max", max_strain))

ElasticBilin(o, a) ==
    LET req == Coerce(Floats(3), SubSeq(a, 1, 3))
        en1 == OptFloat(Default(a[4], None))
        en2 == OptFloat(Default(a[5], None))
        eps_n2 == OptFloat(Default(a[6], None))
    IN  Build(o, "ElasticBilin", req \o <<en1, en2, eps_n2>>,
              req \o UpToFirstNone(<<en1, en2, eps_n2>>))

ElasticMultiLinear(o, a) ==
    LET eta == float(Default(a[1], PyFloat(0, 0)))
        strain == Default(a[2], None)
        stress == Default(a[3], None)
    IN  Build(o, "ElasticMultiLinear", <<eta>>,
              <<eta>> \o FlaggedPacket("-strain", strain) \o FlaggedPacket("-stress", stress))

MultiLinear(o, a) ==
    Build(o, "MultiLinear", <<>>, Unpack(a[1]))

\* mutant: the strain is emitted where the reference belongs
InitStrainMaterialSwapped(o, a) ==
    LET init_strain == float(a[2])
    IN  Build(o, "InitStrainMaterial", <<init_strain>>, <<init_strain, TagOf(a[1])>>)

InitStrainMaterial(o, a) ==
    LET init_strain == float(a[2])
    IN  Build(o, "InitStrainMaterial", <<init_strain>>, <<TagOf(a[1]), init_strain>>)

InitStressMaterial(o, a) ==
    LET init_stress == float(a[2])
    IN  Build(o, "InitStressMaterial", <<init_stress>>, <<TagOf(a[1]), init_stress>>)

PathIndependent(o, a) ==
    Build(o, "PathIndependent", <<>>, <<TagOf(a[1])>>)

ECC01(o, a) ==
    LET c == Coerce(Floats(14), a) IN Build(o, "ECC01", c, c)

SelfCentering(o, a) ==
    LET c == Coerce(Floats(6), <<a[1], a[2], a[3], a[4], Default(a[5], PyInt(0)),
                                 Default(a[6], PyInt(0))>>)
        r_bear == OptFloat(Default(a[7], None))
    IN  Build(o, "SelfCentering", c \o <<r_bear>>, c \o UpToFirstNone(<<r_bear>>))

Viscous(o, a) ==
    LET c == Coerce(Floats(2), a) IN Build(o, "Viscous", c, c)

BoucWen(o, a) ==
    LET c == Coerce(Floats(9), a) IN Build(o, "BoucWen", c, c)

BWBN(o, a) ==
    LET c == Coerce(Floats(14), a) IN Build(o, "BWBN", c, c)

AxialSp(o, a) ==
    LET c == Coerce(Floats(7), a) IN Build(o, "AxialSp", c, c)

AxialSpHD(o, a) ==
    LET c == Coerce(Floats(9), a) IN Build(o, "AxialSpHD", c, c)

CFSWSWP(o, a) ==
    LET c == Coerce(Floats(12) \o <<"i", "f", "f">>, a) IN Build(o, "CFSWSWP", c, c)

CFSSSWP(o, a) ==
    LET c == Coerce(Floats(16), a) IN Build(o, "CFSSSWP", c, c)

\* ------------------------------------------- layer.py: the constructors
Straight(o, a) ==
    LET c == Coerce(<<"i", "f">>, <<a[1], a[2]>>)
    IN  Build(o, "straight", c, c \o Unpack(a[3]) \o Unpack(a[4]))

Circ(o, a) ==
    LET num_fiber == int(a[1])
        area_fiber == float(a[2])
        radius == float(a[4])
        ang == Default(a[5], None)
    IN  Build(o, "circ", <<num_fiber, area_fiber, radius>>,
              <<num_fiber, area_fiber>> \o Unpack(a[3]) \o <<radius>>
                  \o (IF ang = None THEN <<>> ELSE Unpack(ang)))

\* ---------------------------------------- standard.py: the constructors
\* The classes of standard.py set no op_type of their own: self.op_type is
\* the one they inherit, taken here to be the command's name.
InheritedOpType(cls) == PyStr(cls)

\* A constructor of standard.py after its coercions: osi.n_mats is advanced,
\* the tag is read from osi.mats.
BuildStd(o, cls, head, body) ==
    IF FirstRaise(head) # NoAttr THEN Raise(o, FirstRaise(head))
    ELSE LET o1 == IncNMats(o)
             tag == ReadMats(o1)
         IN  IF FirstRaise(<<tag>> \o body) # NoAttr
             THEN Raise(o1, FirstRaise(<<tag>> \o body))
             ELSE Ok(o1, tag, <<InheritedOpType(cls), tag>> \o body)

Elastic(o, a) ==
    LET big_e == float(a[1])
        eta == float(Default(a[2], PyFloat(0, 0)))
        eneg == float(Default(a[3], None))
    IN  BuildStd(o, "Elastic", <<big_e, eta, eneg>>,
                 <<big_e, eta>> \o EveryNotNone(<<eneg>>))

\* mutant: epsy_n is coerced only when it is given
ElasticPPOptionalEpsyN(o, a) ==
    LET big_e == float(a[1])
        epsy_p == float(a[2])
        epsy_n == OptFloat(Default(a[3], None))
        eps0 == float(Default(a[4], PyFloat(0, 0)))
    IN  BuildStd(o, "ElasticPP", <<big_e, epsy_p, epsy_n, eps0>>,
                 <<big_e, epsy_p>> \o EveryNotNone(<<epsy_n, eps0>>))

ElasticPP(o, a) ==
    LET big_e == float(a[1])
        epsy_p == float(a[2])
        epsy_n == float(Default(a[3], None))
        eps0 == float(Default(a[4], PyFloat(0, 0)))
    IN  BuildStd(o, "ElasticPP", <<big_e, epsy_p, epsy_n, eps0>>,
                 <<big_e, epsy_p>> \o EveryNotNone(<<epsy_n, eps0>>))

ElasticPPGap(o, a) ==
    LET c == Coerce(Floats(4), <<a[1], a[2], a[3], Default(a[4], PyFloat(0, 0))>>)
        damage == Default(a[5], PyStr("noDamage"))
    IN  BuildStd(o, "ElasticPPGap", c, c \o <<damage>>)

ENT(o, a) ==
    LET c == Coerce(Floats(1), a) IN BuildStd(o, "ENT", c, c)

Parallel(o, a) ==
    LET factor_args == Default(a[2], None)
    IN  BuildStd(o, "Parallel", <<>>,
                 Unpack(a[1]) \o FlaggedPacket("-factor", factor_args))

Series(o, a) ==
    BuildStd(o, "Series", <<>>, Unpack(a[1]))

\* ------------------------------------------------------ the arguments
\* The i-th sample argument: an int at the odd places, a float i.5 at the
\* even ones, so that every place of a call holds a value of its own.
V(i) == IF i % 2 = 1 THEN PyInt(i) ELSE PyFloat(10 * i + 5, -1)

Req(n) == [i \in 1..n |-> V(i)]

\* an optional argument: left out, or given
Opt(v) == {Omitted, v}

\* what a caller can pass as a reference: an object a constructor returned,
\* or None
Built == {j \in 1..Len(calls) : calls[j].res = "ok"}
Refs == {PyObj(i) : i \in Built} \cup {None}

\* the object built last, None before the first
LastRef == IF Built = {} THEN None ELSE PyObj(CHOOSE i \in Built : \A j \in Built : j <= i)

Pts == PyList(<<PyFloat(15, -1), PyInt(2), PyFloat(25, -1)>>)
Strain == PyList(<<PyInt(3), PyInt(4)>>)
Stress == PyList(<<PyInt(0), PyInt(1), PyInt(2)>>)
Empty == PyList(<<>>)
Packets(l) == {Omitted, Empty, l}
BigE == PyFloat(2, 8)

HardeningArgs == {Req(4) \o <<eta>> : eta \in Opt(V(5)) \cup {None}}
CastArgs ==
    {Req(10) \o <<a1, a2, a3, a4>> :
        a1 \in Opt(V(11)), a2 \in Opt(V(12)), a3 \in Opt(V(13)), a4 \in Opt(V(14))}
ViscousDamperArgs ==
    {Req(3) \o [i \in 1..5 |-> Omitted], Req(3) \o <<V(4)>> \o [i \in 1..4 |-> Omitted], Req(8)}
BilinearOilDamperArgs == {Req(2) \o [i \in 1..7 |-> Omitted], Req(9)}
BilinArgs == {Req(23) \o <<n_factor>> : n_factor \in Opt(V(24))}
BarSlipArgs ==
    {Req(10) \o <<PyStr("Strong"), PyStr("beamtop")>> \o t :
        t \in {<<Omitted, Omitted, Omitted>>, <<V(13), PyStr("NoDamage"), PyStr("MPa")>>}}
FatigueArgs ==
    {<<r, Omitted, Omitted, Omitted, Omitted>> : r \in Refs} \cup
    {<<LastRef, e0, m, min, max>> :
        e0 \in Opt(V(2)), m \in Opt(V(3)), min \in Opt(V(4)), max \in Opt(V(5))}
LimitStateArgs == {Req(17) \o <<r, V(18)>> : r \in Refs}
MinMaxArgs ==
    {<<r, Omitted, Omitted>> : r \in Refs} \cup
    {<<LastRef, lo, hi>> : lo \in Opt(V(2)), hi \in Opt(V(3))}
ElasticBilinArgs ==
    {Req(3) \o <<en1, en2, eps_n2>> :
        en1 \in Opt(V(4)), en2 \in Opt(V(5)), eps_n2 \in Opt(V(6))}
ElasticMultiLinearArgs ==
    {<<Omitted, strain, stress>> : strain \in Packets(Strain), stress \in Packets(Stress)}
MultiLinearArgs == {<<pts>> : pts \in {Empty, Pts, None}}
InitMaterialArgs == {<<r, V(2)>> : r \in Refs}
PathIndependentArgs == {<<r>> : r \in Refs}
SelfCenteringArgs ==
    {Req(4) \o t :
        t \in {<<Omitted, Omitted, Omitted>>, <<V(5), V(6), Omitted>>,
               <<Omitted, Omitted, V(7)>>, <<V(5), V(6), V(7)>>}}
        \cup {<<V(1), None, V(3), V(4), Omitted, Omitted, Omitted>>}
StraightArgs == {<<V(2), V(1), PyList(<<V(3), V(4)>>), PyList(<<V(5), V(6)>>)>>}
CircArgs ==
    {<<V(2), V(1), PyList(<<V(3), V(4)>>), V(5), ang>> :
        ang \in Packets(PyList(<<PyInt(0), PyInt(180)>>))}
        \cup {<<V(2), V(1), PyList(<<V(3), V(4)>>), None, Omitted>>}
ElasticArgs == {<<BigE, eta, eneg>> : eta \in Opt(PyFloat(0, 0)), eneg \in Opt(V(3))}
ElasticPPArgs == {<<V(1), V(2), epsy_n, eps0>> : epsy_n \in Opt(V(3)), eps0 \in Opt(V(4))}
ElasticPPGapArgs ==
    {Req(3) \o t : t \in {<<Omitted, Omitted>>, <<V(4), PyStr("damage")>>}}
TagList == PyList(<<PyInt(1), PyInt(2)>>)
ParallelArgs == {<<TagList, f>> : f \in Packets(PyList(<<PyFloat(5, -1), PyInt(2)>>))}

\* ------------------------------------------- the recorded commands
\* The text of a token is a sequence of characters; a string token is one
\* word. An int is written in decimal, a float as mantissa, "e", exponent.
DigitChars == <<"0", "1", "2", "3", "4", "5", "6", "7", "8", "9">>

RECURSIVE RenderInt(_)
RenderInt(n) ==
    IF n < 0 THEN <<"-">> \o RenderInt(-n)
    ELSE IF n < 10 THEN <<DigitChars[n + 1]>>
    ELSE Append(RenderInt(n \div 10), DigitChars[(n % 10) + 1])

\* mutant: a float without exponent is written as its mantissa alone
RenderFloatShort(m, e) ==
    IF e = 0 THEN RenderInt(m) ELSE RenderInt(m) \o <<"e">> \o RenderInt(e)

RenderFloat(m, e) == RenderInt(m) \o <<"e">> \o RenderInt(e)

RenderToken(t) ==
    CASE t[1] = "int" -> RenderInt(t[2])
      [] t[1] = "float" -> RenderFloat(t[2][1], t[2][2])
      [] OTHER -> <<t[2]>>

\* the value of each digit character
DigitValue ==
    [c \in {DigitChars[i] : i \in 1..10} |-> CHOOSE d \in 0..9 : DigitChars[d + 1] = c]

\* the number the characters lo..hi of w stand for: digits with an optional
\* sign in front
RECURSIVE ParseInt(_, _, _)
ParseInt(w, lo, hi) ==
    IF hi < lo THEN 0
    ELSE IF w[lo] = "-" THEN -ParseInt(w, lo + 1, hi)
    ELSE 10 * ParseInt(w, lo, hi - 1) + DigitValue[w[hi]]

\* the token a text is read as: a number when it looks like one
ParseToken(w) ==
    IF w # <<>> /\ \A i \in 1..Len(w) : w[i] \in DOMAIN DigitValue \cup {"-", "e"}
    THEN IF \E i \in 1..Len(w) : w[i] = "e"
         THEN LET k == CHOOSE i \in 1..Len(w) : w[i] = "e"
              IN  PyFloat(ParseInt(w, 1, k - 1), ParseInt(w, k + 1, Len(w)))
         ELSE PyInt(ParseInt(w, 1, Len(w)))
    ELSE PyStr(w[1])

\* the transcript read back: one engine invocation per line
Replay(lines) ==
    [i \in 1..Len(lines) |-> [k \in 1..Len(lines[i]) |-> ParseToken(lines[i][k])]]

\* ------------------------------------------------------------ actions
\* to_process(osi): the backend of osi receives the token list
to_process(params) == Append(sent, params)

\* the command is recorded as a line of text, one word per token
to_commands(params) == Append(script, [k \in 1..Len(params) |-> RenderToken(params[k])])

\* the number of calls is bounded
CanCall == Len(calls) < MaxCalls

\* mutant: the token list is handed to to_process whether or not the
\* constructor raised
EmitDispatchesFailed(cls, a, r, h) ==
    /\ osi' = r.osi
    /\ calls' = Append(calls, [cls |-> cls, args |-> a, res |-> r.res, tag |-> r.tag,
                               params |-> r.params, ctx |-> cur, held |-> h,
                               before |-> osi])
    /\ sent' = to_process(r.params)
    /\ script' = to_commands(r.params)

\* One constructor call cls(osi, *a) with outcome r: osi is left as the
\* constructor left it; a call that raised built no object and sent nothing.
\* The instance runs the commands and records them (state=3). h names the
\* caller's lists the object keeps in its fields.
Emit(cls, a, r, h) ==
    /\ osi' = r.osi
    /\ calls' = Append(calls, [cls |-> cls, args |-> a, res |-> r.res, tag |-> r.tag,
                               params |-> r.params, ctx |-> cur, held |-> h,
                               before |-> osi])
    /\ sent' = IF r.res = "ok" THEN to_process(r.params) ELSE sent
    /\ script' = IF r.res = "ok" THEN to_commands(r.params) ELSE script

\* mutant: the counter is shared by the instances
ConstructSharedCounter(cls, a, r) ==
    /\ Emit(cls, a, r, <<>>)
    /\ parked' = [parked EXCEPT !.osi = r.osi]
    /\ UNCHANGED <<cur, heap, threads, raced, site>>

\* a call by the one caller of Spec, its list arguments written in place
Construct(cls, a, r) ==
    /\ Emit(cls, a, r, <<>>)
    /\ UNCHANGED <<cur, parked, heap, threads, raced, site>>

NewHardening ==
    /\ CanCall
    /\ \E a \in HardeningArgs : Construct("Hardening", a, Hardening(osi, a))
NewCast ==
    /\ CanCall
    /\ \E a \in CastArgs : Construct("Cast", a, Cast(osi, a))
NewViscousDamper ==
    /\ CanCall
    /\ \E a \in ViscousDamperArgs : Construct("ViscousDamper", a, ViscousDamper(osi, a))
NewBilinearOilDamper ==
    /\ CanCall
    /\ \E a \in BilinearOilDamperArgs : Construct("BilinearOilDamper", a, BilinearOilDamper(osi, a))
NewBilin ==
    /\ CanCall
    /\ \E a \in BilinArgs : Construct("Bilin", a, Bilin(osi, a))
NewModIMKPeakOriented ==
    /\ CanCall
    /\ \E a \in {Req(23)} : Construct("ModIMKPeakOriented", a, ModIMKPeakOriented(osi, a))
NewModIMKPinching ==
    /\ CanCall
    /\ \E a \in {Req(26)} : Construct("ModIMKPinching", a, ModIMKPinching(osi, a))
NewSAWS ==
    /\ CanCall
    /\ \E a \in {Req(10)} : Construct("SAWS", a, SAWS(osi, a))
NewBarSlip ==
    /\ CanCall
    /\ \E a \in BarSlipArgs : Construct("BarSlip", a, BarSlip(osi, a))
NewBondSP01 ==
    /\ CanCall
    /\ \E a \in {Req(6)} : Construct("BondSP01", a, BondSP01(osi, a))
NewFatigue ==
    /\ CanCall
    /\ \E a \in FatigueArgs : Construct("Fatigue", a, Fatigue(osi, a))
NewImpactMaterial ==
    /\ CanCall
    /\ \E a \in {Req(4)} : Construct("ImpactMaterial", a, ImpactMaterial(osi, a))
NewHyperbolicGapMaterial ==
    /\ CanCall
    /\ \E a \in {Req(5)} : Construct("HyperbolicGapMaterial", a, HyperbolicGapMaterial(osi, a))
NewLimitState ==
    /\ CanCall
    /\ \E a \in LimitStateArgs : Construct("LimitState", a, LimitState(osi, a))
NewMinMax ==
    /\ CanCall
    /\ \E a \in MinMaxArgs : Construct("MinMax", a, MinMax(osi, a))
NewElasticBilin ==
    /\ CanCall
    /\ \E a \in ElasticBilinArgs : Construct("ElasticBilin", a, ElasticBilin(osi, a))
NewElasticMultiLinear ==
    /\ CanCall
    /\ \E a \in ElasticMultiLinearArgs :
           Construct("ElasticMultiLinear", a, ElasticMultiLinear(osi, a))
NewMultiLinear ==
    /\ CanCall
    /\ \E a \in MultiLinearArgs : Construct("MultiLinear", a, MultiLinear(osi, a))
NewInitStrainMaterial ==
    /\ CanCall
    /\ \E a \in InitMaterialArgs : Construct("InitStrainMaterial", a, InitStrainMaterial(osi, a))
NewInitStressMaterial ==
    /\ CanCall
    /\ \E a \in InitMaterialArgs : Construct("InitStressMaterial", a, InitStressMaterial(osi, a))
NewPathIndependent ==
    /\ CanCall
    /\ \E a \in PathIndependentArgs : Construct("PathIndependent", a, PathIndependent(osi, a))
NewECC01 ==
    /\ CanCall
    /\ \E a \in {Req(14)} : Construct("ECC01", a, ECC01(osi, a))
NewSelfCentering ==
    /\ CanCall
    /\ \E a \in SelfCenteringArgs : Construct("SelfCentering", a, SelfCentering(osi, a))
NewViscous ==
    /\ CanCall
    /\ \E a \in {Req(2)} : Construct("Viscous", a, Viscous(osi, a))
NewBoucWen ==
    /\ CanCall
    /\ \E a \in {Req(9)} : Construct("BoucWen", a, BoucWen(osi, a))
NewBWBN ==
    /\ CanCall
    /\ \E a \in {Req(14)} : Construct("BWBN", a, BWBN(osi, a))
NewAxialSp ==
    /\ CanCall
    /\ \E a \in {Req(7)} : Construct("AxialSp", a, AxialSp(osi, a))
NewAxialSpHD ==
    /\ CanCall
    /\ \E a \in {Req(9)} : Construct("AxialSpHD", a, AxialSpHD(osi, a))
NewCFSWSWP ==
    /\ CanCall
    /\ \E a \in {Req(15)} : Construct("CFSWSWP", a, CFSWSWP(osi, a))
NewCFSSSWP ==
    /\ CanCall
    /\ \E a \in {Req(16)} : Construct("CFSSSWP", a, CFSSSWP(osi, a))
NewStraight ==
    /\ CanCall
    /\ \E a \in StraightArgs : Construct("Straight", a, Straight(osi, a))
NewCirc ==
    /\ CanCall
    /\ \E a \in CircArgs : Construct("Circ", a, Circ(osi, a))
NewElastic ==
    /\ CanCall
    /\ \E a \in ElasticArgs : Construct("Elastic", a, Elastic(osi, a))
NewElasticPP ==
    /\ CanCall
    /\ \E a \in ElasticPPArgs : Construct("ElasticPP", a, ElasticPP(osi, a))
NewElasticPPGap ==
    /\ CanCall
    /\ \E a \in ElasticPPGapArgs : Construct("ElasticPPGap", a, ElasticPPGap(osi, a))
NewENT ==
    /\ CanCall
    /\ \E a \in {Req(1)} : Construct("ENT", a, ENT(osi, a))
NewParallel ==
    /\ CanCall
    /\ \E a \in ParallelArgs : Construct("Parallel", a, Parallel(osi, a))
NewSeries ==
    /\ CanCall
    /\ \E a \in {<<TagList>>} : Construct("Series", a, Series(osi, a))

\* ------------------------------------------------------ specification
\* A fresh OpenseesInstance: the counters at 0. Nothing in the package's
\* constructors assigns osi.mats; the instance may lack it or hold a number.
MatsInit == {NoAttr, PyInt(1)}

\* the caller's two lists; the two threads
Lists == <<<<V(3), V(4)>>, <<PyInt(0), PyInt(180)>>>>
Threads == {1, 2}
Idle == [pc |-> "idle", cls |-> "", args |-> <<>>, tag |-> None]

Init ==
    /\ osi \in {[n_mat |-> 0, n_mats |-> 0, mats |-> m] : m \in MatsInit}
    /\ calls = <<>>
    /\ sent = <<>>
    /\ script = <<>>
    /\ cur = "A"
    /\ parked = [osi |-> osi, sent |-> <<>>, script |-> <<>>]
    /\ heap = Lists
    /\ threads = [t \in Threads |-> Idle]
    /\ raced = FALSE
    /\ site = [pc |-> "idle", n |-> 0, linear |-> FALSE, last |-> 0, k |-> 1, env |-> <<>>,
               log |-> <<>>, time |-> 0, steps |-> 0, written |-> 0, wipes |-> 0]

NewOther ==
    \/ NewHardening \/ NewCast \/ NewViscousDamper \/ NewBilinearOilDamper \/ NewBilin
    \/ NewModIMKPeakOriented \/ NewModIMKPinching \/ NewSAWS \/ NewBarSlip \/ NewBondSP01
    \/ NewFatigue \/ NewImpactMaterial \/ NewHyperbolicGapMaterial \/ NewLimitState
    \/ NewMinMax \/ NewElasticBilin \/ NewElasticMultiLinear \/ NewMultiLinear
    \/ NewInitStrainMaterial \/ NewInitStressMaterial \/ NewPathIndependent \/ NewECC01
    \/ NewSelfCentering \/ NewViscous \/ NewBoucWen \/ NewBWBN \/ NewAxialSp
    \/ NewAxialSpHD \/ NewCFSWSWP \/ NewCFSSSWP

NewLayer == NewStraight \/ NewCirc

NewStandard ==
    \/ NewElastic \/ NewElasticPP \/ NewElasticPPGap \/ NewENT \/ NewParallel \/ NewSeries

Next == NewOther \/ NewLayer \/ NewStandard

Spec == Init /\ [][Next]_vars

\* ------------------------------------------------ a second instance
\* The caller has two instances and passes the other one as osi from now
\* on. The objects built so far stay at hand whatever instance they were
\* built with.
SwitchContext ==
    /\ cur' = IF cur = "A" THEN "B" ELSE "A"
    /\ osi' = parked.osi
    /\ sent' = parked.sent
    /\ script' = parked.script
    /\ parked' = [osi |-> osi, sent |-> sent, script |-> script]
    /\ UNCHANGED <<calls, heap, threads, raced, site>>

SpecCtx == Init /\ [][Next \/ SwitchContext]_vars

\* ------------------------------------- a caller that keeps its lists
\* The caller passes lists it has a name for: `self.start = start` stores
\* the caller's list itself, `*self.start` copies its elements into
\* _parameters. held maps the argument's place to the list it is.
NewStraightOf ==
    /\ CanCall
    /\ \E i, j \in 1..Len(heap) :
           LET a == <<V(2), V(1), PyList(heap[i]), PyList(heap[j])>>
           IN  Emit("Straight", a, Straight(osi, a), (3 :> i) @@ (4 :> j))
    /\ UNCHANGED <<cur, parked, heap, threads, raced, site>>

NewCircOf ==
    /\ CanCall
    /\ \E i, j \in 1..Len(heap) :
           LET a == <<V(2), V(1), PyList(heap[i]), V(5), PyList(heap[j])>>
           IN  Emit("Circ", a, Circ(osi, a), (3 :> i) @@ (5 :> j))
    /\ UNCHANGED <<cur, parked, heap, threads, raced, site>>

NewMultiLinearOf ==
    /\ CanCall
    /\ \E i \in 1..Len(heap) :
           LET a == <<PyList(heap[i])>>
           IN  Emit("MultiLinear", a, MultiLinear(osi, a), (1 :> i))
    /\ UNCHANGED <<cur, parked, heap, threads, raced, site>>

NewElasticMultiLinearOf ==
    /\ CanCall
    /\ \E i, j \in 1..Len(heap) :
           LET a == <<Omitted, PyList(heap[i]), PyList(heap[j])>>
           IN  Emit("ElasticMultiLinear", a, ElasticMultiLinear(osi, a), (2 :> i) @@ (3 :> j))
    /\ UNCHANGED <<cur, parked, heap, threads, raced, site>>

\* the caller appends to one of its lists
CallerMutates ==
    /\ \E i \in 1..Len(heap) :
           /\ Len(heap[i]) < MaxListLen
           /\ heap' = [heap EXCEPT ![i] = Append(@, PyInt(9))]
    /\ UNCHANGED <<osi, calls, sent, script, cur, parked, threads, raced, site>>

SpecAlias ==
    Init /\ [][\/ NewStraightOf \/ NewCircOf \/ NewMultiLinearOf
               \/ NewElasticMultiLinearOf \/ CallerMutates]_vars

\* ------------------------------------------- two threads, one instance
\* Each thread runs constructors on the same osi, statement by statement;
\* the other thread may run between any two statements. The arguments are
\* valid, so no statement raises.

\* the constructor of cls
Run(cls, o, a) ==
    CASE cls = "ImpactMaterial" -> ImpactMaterial(o, a)
      [] cls = "Straight" -> Straight(o, a)
      [] cls = "Circ" -> Circ(o, a)
      [] cls = "Hardening" -> Hardening(o, a)
      [] cls = "Fatigue" -> Fatigue(o, a)
      [] cls = "ElasticBilin" -> ElasticBilin(o, a)
      [] cls = "ECC01" -> ECC01(o, a)

\* the thread enters a constructor and runs its coercions
ThreadCoerce(t) ==
    /\ threads[t].pc = "idle"
    /\ Len(calls) + Cardinality({u \in Threads : threads[u].pc # "idle"}) < MaxCalls
    /\ \E c \in ({"ImpactMaterial"} \X {Req(4)}) \cup ({"Straight"} \X StraightArgs)
                  \cup ({"Circ"} \X {a \in CircArgs : a[4] # None}) :
           threads' = [threads EXCEPT ![t] = [Idle EXCEPT !.pc = "coerced", !.cls = c[1],
                                                          !.args = c[2]]]
    /\ UNCHANGED <<osi, calls, sent, script, cur, parked, heap, raced, site>>

\* `osi.n_mat += 1`
ThreadIncNMat(t) ==
    /\ threads[t].pc = "coerced"
    /\ osi' = IncNMat(osi)
    /\ raced' = (raced \/ \E u \in Threads \ {t} : threads[u].pc = "incremented")
    /\ threads' = [threads EXCEPT ![t].pc = "incremented"]
    /\ UNCHANGED <<calls, sent, script, cur, parked, heap, site>>

\* `self._tag = osi.n_mat`
ThreadReadNMat(t) ==
    /\ threads[t].pc = "incremented"
    /\ threads' = [threads EXCEPT ![t].pc = "tagged", ![t].tag = ReadNMat(osi)]
    /\ UNCHANGED <<osi, calls, sent, script, cur, parked, heap, raced, site>>

\* `self._parameters = [self.op_type, self._tag, ...]; self.to_process(osi)`
ThreadToProcess(t) ==
    /\ threads[t].pc = "tagged"
    /\ LET th == threads[t]
           r == Run(th.cls, osi, th.args)
           params == <<r.params[1], th.tag>> \o SubSeq(r.params, 3, Len(r.params))
       IN  Emit(th.cls, th.args,
                [res |-> "ok", osi |-> osi, tag |-> th.tag, params |-> params], <<>>)
    /\ threads' = [threads EXCEPT ![t] = Idle]
    /\ UNCHANGED <<cur, parked, heap, raced, site>>

SpecThreads ==
    Init /\ [][\E t \in Threads : \/ ThreadCoerce(t) \/ ThreadIncNMat(t)
                                  \/ ThreadReadNMat(t) \/ ThreadToProcess(t)]_vars

\* ------------------------------------------- two runs, side by side
\* The two instances of SpecCtx as two runs of a program: longer runs of
\* fewer constructors, so that each run can build an object and then an
\* object that refers to it.
MaxRunCalls == 4

\* the calls of a run: the class and its arguments
RunCalls ==
    ({"Hardening"} \X {Req(4) \o <<Omitted>>})
        \cup ({"Fatigue"} \X {<<r, Omitted, Omitted, Omitted, V(5)>> : r \in Refs \ {None}})
        \cup ({"ElasticBilin"} \X {Req(3) \o <<V(4), Omitted, Omitted>>})
        \cup ({"ECC01"} \X {Req(14)})
        \cup ({"Straight"} \X StraightArgs)

NewRunCall ==
    /\ Len(calls) < MaxRunCalls
    /\ \E c \in RunCalls : Construct(c[1], c[2], Run(c[1], osi, c[2]))

SpecRuns == Init /\ [][NewRunCall \/ SwitchContext]_vars

\* ------------------------------------------- examples: site_response
\* One call of site_response(sp, asig, linear), statement by statement. A
\* statement is the command it builds or runs (op), the name it binds the
\* object to (def), the names it passes (uses), a number (arg) and its line.
\* Names are <<variable, index>>; <<"", 0>> is no name. The engine's time is
\* counted in steps of analysis_dt.
MaxLayers == 2
MaxSteps == 3

\* analysis_dt = 0.01: the steps of analysis_dt in a second
StepsPerSecond == 100

Stmt(op, def, uses, arg, line) ==
    [op |-> op, def |-> def, uses |-> uses, arg |-> arg, line |-> line]

\* lines 63-85: the nodes of the n + 1 rows, their constraints, the dashpot
\* nodes
SiteNodes(n) ==
    <<Stmt("Node", <<"R_L", 0>>, <<>>, 0, 64), Stmt("Node", <<"R_R", 0>>, <<>>, 0, 65)>>
    \o [j \in 1..(3 * n) |->
          LET i == (j + 2) \div 3
          IN  CASE j % 3 = 1 -> Stmt("Node", <<"R_L", i>>, <<>>, 0, 68)
                [] j % 3 = 2 -> Stmt("Node", <<"R_R", i>>, <<>>, 0, 69)
                [] OTHER -> Stmt("EqualDOF", <<"", 0>>, <<<<"R_L", i>>, <<"R_R", i>>>>, 0, 71)]
    \o <<Stmt("Fix", <<"", 0>>, <<<<"R_L", n>>>>, 0, 74),
         Stmt("Fix", <<"", 0>>, <<<<"R_R", n>>>>, 0, 75),
         Stmt("Node", <<"dashpot_node_l", 0>>, <<>>, 0, 78),
         Stmt("Node", <<"dashpot_node_2", 0>>, <<>>, 0, 79),
         Stmt("Fix", <<"", 0>>, <<<<"dashpot_node_l", 0>>>>, 0, 80),
         Stmt("Fix", <<"", 0>>, <<<<"dashpot_node_2", 0>>>>, 0, 81),
         Stmt("EqualDOF", <<"", 0>>, <<<<"R_L", n>>, <<"R_R", n>>>>, 0, 84),
         Stmt("EqualDOF", <<"", 0>>, <<<<"R_L", n>>, <<"dashpot_node_2", 0>>>>, 0, 85)>>

\* mutant: the element of a layer is built before the layer's material
SiteElementsQuadFirst(n, linear) ==
    [j \in 1..(2 * n) |->
        LET i == (j - 1) \div 2
        IN  IF j % 2 = 0
            THEN IF linear
                 THEN Stmt("ElasticIsotropic", <<"soil_mats", i>>, <<>>, 0, 101)
                 ELSE Stmt("PressureIndependMultiYield", <<"soil_mats", i>>, <<>>, 0, 96)
            ELSE Stmt("Quad", <<"", 0>>,
                      <<<<"R_L", i + 1>>, <<"R_R", i + 1>>, <<"R_R", i>>, <<"R_L", i>>,
                        <<"soil_mats", i>>>>, 0, 111)]
    \o <<Stmt("Viscous", <<"dashpot_mat", 0>>, <<>>, 0, 115),
         Stmt("ZeroLength", <<"", 0>>,
              <<<<"dashpot_node_l", 0>>, <<"dashpot_node_2", 0>>, <<"dashpot_mat", 0>>>>,
              0, 116)>>

\* lines 87-116: per layer its material and its element, then the dashpot
SiteElements(n, linear) ==
    [j \in 1..(2 * n) |->
        LET i == (j - 1) \div 2
        IN  IF j % 2 = 1
            THEN IF linear
                 THEN Stmt("ElasticIsotropic", <<"soil_mats", i>>, <<>>, 0, 101)
                 ELSE Stmt("PressureIndependMultiYield", <<"soil_mats", i>>, <<>>, 0, 96)
            ELSE Stmt("Quad", <<"", 0>>,
                      <<<<"R_L", i + 1>>, <<"R_R", i + 1>>, <<"R_R", i>>, <<"R_L", i>>,
                        <<"soil_mats", i>>>>, 0, 111)]
    \o <<Stmt("Viscous", <<"dashpot_mat", 0>>, <<>>, 0, 115),
         Stmt("ZeroLength", <<"", 0>>,
              <<<<"dashpot_node_l", 0>>, <<"dashpot_node_2", 0>>, <<"dashpot_mat", 0>>>>,
              0, 116)>>

\* lines 118-134: the static analysis, then time back to 0
SiteStatic(n) ==
    <<Stmt("Transformation", <<"", 0>>, <<>>, 0, 119),
      Stmt("NormDispIncr", <<"", 0>>, <<>>, 0, 120),
      Stmt("Newton", <<"", 0>>, <<>>, 0, 121),
      Stmt("RCM", <<"", 0>>, <<>>, 0, 122),
      Stmt("ProfileSPD", <<"", 0>>, <<>>, 0, 123),
      Stmt("Newmark", <<"", 0>>, <<>>, 0, 124),
      Stmt("Transient", <<"", 0>>, <<>>, 0, 125),
      Stmt("analyze", <<"", 0>>, <<>>, 40 * StepsPerSecond, 126)>>
    \o [j \in 1..n |->
          Stmt("update_material_stage", <<"", 0>>, <<<<"soil_mats", j - 1>>>>, 0, 129)]
    \o <<Stmt("analyze", <<"", 0>>, <<>>, 50 * (StepsPerSecond \div 2), 130),
         Stmt("set_time", <<"", 0>>, <<>>, 0, 133),
         Stmt("wipe_analysis", <<"", 0>>, <<>>, 0, 134)>>

\* lines 136-156: the recorder, the load and the dynamic analysis
SiteDynamic(n) ==
    <<Stmt("NodeToArrayCache", <<"na", 0>>, <<<<"R_L", 0>>>>, 0, 137),
      Stmt("Path", <<"ts_obj", 0>>, <<>>, 0, 140),
      Stmt("Plain", <<"", 0>>, <<<<"ts_obj", 0>>>>, 0, 141),
      Stmt("Load", <<"", 0>>, <<<<"R_L", n>>>>, 0, 142),
      Stmt("Newton", <<"", 0>>, <<>>, 0, 145),
      Stmt("SparseGeneral", <<"", 0>>, <<>>, 0, 146),
      Stmt("RCM", <<"", 0>>, <<>>, 0, 147),
      Stmt("Transformation", <<"", 0>>, <<>>, 0, 148),
      Stmt("Newmark", <<"", 0>>, <<>>, 0, 149),
      Stmt("Rayleigh", <<"", 0>>, <<>>, 0, 150),
      Stmt("Transient", <<"", 0>>, <<>>, 0, 151),
      Stmt("EnergyIncr", <<"", 0>>, <<>>, 0, 153),
      Stmt("to_py_file", <<"", 0>>, <<>>, 0, 156)>>

\* the statements of site_response before its loop, in order
Program(n, linear) ==
    SiteNodes(n) \o SiteElements(n, linear) \o SiteStatic(n) \o SiteDynamic(n)

\* site_response(sp, asig, linear) is called: sp has n layers, asig ends
\* `last` steps of analysis_dt after 0
SiteEnter ==
    /\ site.pc = "idle"
    /\ \E n \in 1..MaxLayers, linear \in BOOLEAN, last \in 0..MaxSteps :
           site' = [site EXCEPT !.pc = "body", !.n = n, !.linear = linear, !.last = last]
    /\ UNCHANGED <<osi, calls, sent, script, cur, parked, heap, threads, raced>>

\* the next statement before the loop: a name that is not bound raises; the
\* object is built and bound to its name; analyze and set_time move the
\* engine's time; Viscous is the constructor of other.py
SiteStatement ==
    /\ site.pc = "body"
    /\ LET st == Program(site.n, site.linear)[site.k]
           bound == \A i \in 1..Len(st.uses) : st.uses[i] \in DOMAIN site.env
           at == Len(site.log) + 1
       IN  IF ~bound
           THEN /\ site' = [site EXCEPT !.pc = "KeyError"]
                /\ UNCHANGED <<osi, calls, sent, script>>
           ELSE /\ site' =
                      [site EXCEPT
                          !.log = Append(@, st),
                          !.env = IF st.def = <<"", 0>> THEN @ ELSE (st.def :> at) @@ @,
                          !.time = CASE st.op = "analyze" -> @ + st.arg
                                     [] st.op = "set_time" -> st.arg
                                     [] OTHER -> @,
                          !.written = IF st.op = "to_py_file" THEN @ + 1 ELSE @,
                          !.k = @ + 1,
                          !.pc = IF site.k = Len(Program(site.n, site.linear))
                                 THEN "loop" ELSE "body"]
                /\ IF st.op = "Viscous"
                   THEN LET a == <<V(2), PyFloat(1, 0)>>
                        IN  Emit("Viscous", a, Viscous(osi, a), <<>>)
                   ELSE UNCHANGED <<osi, calls, sent, script>>
    /\ UNCHANGED <<cur, parked, heap, threads, raced>>

\* mutant: analyze returns without advancing the engine's time
SiteAnalyzeStalls ==
    /\ site.pc = "loop"
    /\ site.time < site.last
    /\ site' = site
    /\ UNCHANGED <<osi, calls, sent, script, cur, parked, heap, threads, raced>>

\* lines 158-160: `while opy.getTime() < analysis_time: opy.analyze(1,
\* analysis_dt)`, one pass
SiteAnalyze ==
    /\ site.pc = "loop"
    /\ site.time < site.last
    /\ site' = [site EXCEPT !.time = @ + 1, !.steps = @ + 1]
    /\ UNCHANGED <<osi, calls, sent, script, cur, parked, heap, threads, raced>>

\* lines 158, 161-168: the loop ends, opy.wipe(), return
SiteWipe ==
    /\ site.pc = "loop"
    /\ ~(site.time < site.last)
    /\ site' = [site EXCEPT !.wipes = @ + 1, !.pc = "done"]
    /\ UNCHANGED <<osi, calls, sent, script, cur, parked, heap, threads, raced>>

\* The function runs on once it is called: no statement waits for anything.
SpecSite ==
    /\ Init
    /\ [][SiteEnter \/ SiteStatement \/ SiteAnalyze \/ SiteWipe]_vars
    /\ WF_vars(SiteStatement \/ SiteAnalyze \/ SiteWipe)

\* ============================================================ claims
OtherClasses ==
    {"Hardening", "Cast", "ViscousDamper", "BilinearOilDamper", "Bilin",
     "ModIMKPeakOriented", "ModIMKPinching", "SAWS", "BarSlip", "BondSP01", "Fatigue",
     "ImpactMaterial", "HyperbolicGapMaterial", "LimitState", "MinMax", "ElasticBilin",
     "ElasticMultiLinear", "MultiLinear", "InitStrainMaterial", "InitStressMaterial",
     "PathIndependent", "ECC01", "SelfCentering", "Viscous", "BoucWen", "BWBN", "AxialSp",
     "AxialSpHD", "CFSWSWP", "CFSSSWP"}
StandardClasses == {"Elastic", "ElasticPP", "ElasticPPGap", "ENT", "Parallel", "Series"}
LayerClasses == {"Straight", "Circ"}

\* every call so far returned an object
AllBuilt == \A i \in 1..Len(calls) : calls[i].res = "ok"

\* an optional argument the caller gave a value
Given(x) == x # Omitted /\ x # None

\* ---- C1
\* C1: on a fresh instance, as long as every call is a successful construction
\* of a class of other.py, the k-th object constructed holds tag k.
C1_KthObjectHasTagK ==
    (AllBuilt /\ \A i \in 1..Len(calls) : calls[i].cls \in OtherClasses)
        => \A k \in 1..Len(calls) : calls[k].tag = PyInt(k)

\* two objects of different classes of other.py built one after the other
C1_Witness ==
    /\ Len(calls) = 2
    /\ AllBuilt
    /\ calls[1].cls = "Hardening"
    /\ calls[2].cls = "Viscous"
    /\ calls[2].tag = PyInt(2)

\* ---- C2
\* C2: Elastic(osi, big_e=2.0e8, eta=0.0) with eneg left out succeeds and emits
\* ["Elastic", 1, 2.0e8, 0.0] on a fresh instance, and tag 2 for the second
\* such object.
C2_ElasticScenario ==
    \A k \in 1..Len(calls) :
        (\A i \in 1..k : /\ calls[i].cls = "Elastic"
                         /\ calls[i].args = <<BigE, PyFloat(0, 0), Omitted>>)
            => /\ calls[k].res = "ok"
               /\ calls[k].params = <<PyStr("Elastic"), PyInt(k), BigE, PyFloat(0, 0)>>

\* ---- C3
\* C3: no two material objects (of standard.py or other.py) of one instance
\* hold the same tag.
C3_MaterialTagsDistinct ==
    \A i, j \in Built :
        (/\ i < j
         /\ calls[i].cls \in OtherClasses \cup StandardClasses
         /\ calls[j].cls \in OtherClasses \cup StandardClasses)
            => calls[i].tag # calls[j].tag

\* ---- C4
\* C4: the layer tags of a session are 1, 2, 3, ... whatever material
\* constructions are interleaved: with every call successful, a layer object
\* holds the number of layer objects built up to and including it.
C4_LayerTagsOwnCounter ==
    AllBuilt =>
        \A i \in 1..Len(calls) :
            calls[i].cls \in LayerClasses
                => calls[i].tag =
                       PyInt(Cardinality({j \in 1..i : calls[j].cls \in LayerClasses}))

\* ---- C5
\* where the reference argument stands in the call, and where its token stands
RefArg(cls) == IF cls = "LimitState" THEN 18 ELSE 1
RefToken(cls) == IF cls = "LimitState" THEN 20 ELSE 3
RefClasses ==
    {"Fatigue", "MinMax", "InitStrainMaterial", "InitStressMaterial", "PathIndependent",
     "LimitState"}

\* C5: the token at the reference position of Fatigue, MinMax,
\* InitStrainMaterial, InitStressMaterial, PathIndependent (other) and
\* LimitState (curve) is the referenced object's tag, an integer.
C5_ReferenceTokenIsTag ==
    \A i \in Built :
        calls[i].cls \in RefClasses
            => LET ref == calls[i].args[RefArg(calls[i].cls)]
               IN  /\ ref[1] = "obj"
                   /\ calls[i].params[RefToken(calls[i].cls)] = calls[ref[2]].tag
                   /\ calls[i].params[RefToken(calls[i].cls)][1] = "int"

\* a wrapper of an object with many fields of its own
C5_Witness ==
    /\ Len(calls) = 2
    /\ calls[1].cls = "Cast" /\ calls[1].res = "ok"
    /\ calls[2].cls = "LimitState" /\ calls[2].res = "ok"
    /\ calls[2].args[18] = PyObj(1)
    /\ calls[2].params[20] = PyInt(1)

\* ---- C6
\* the trailing optionals of the call: their places among the arguments
Trailing(cls) == IF cls = "Cast" THEN 11..14 ELSE 4..6

\* one trailing optional is left out and a later one is given
HasGap(c) ==
    \E p, q \in Trailing(c.cls) : p < q /\ ~Given(c.args[p]) /\ Given(c.args[q])

\* C6: a construction of Cast or ElasticBilin that leaves a trailing optional
\* out and gives a later one fails with ParameterOrderError.
C6_GapIsRejected ==
    \A i \in 1..Len(calls) :
        (calls[i].cls \in {"Cast", "ElasticBilin"} /\ HasGap(calls[i]))
            => calls[i].res = "ParameterOrderError"

\* ---- C7
RequiredOnly ==
    {"ModIMKPeakOriented", "ModIMKPinching", "SAWS", "BondSP01", "ImpactMaterial",
     "HyperbolicGapMaterial", "ECC01", "Viscous", "BoucWen", "BWBN", "AxialSp",
     "AxialSpHD", "CFSWSWP", "CFSSSWP", "ENT"}

\* the op_type literal of a class
OpTypeOf(cls) ==
    CASE cls = "BondSP01" -> PyStr("Bond_SP01")
      [] cls = "Straight" -> PyStr("straight")
      [] cls = "Circ" -> PyStr("circ")
      [] OTHER -> PyStr(cls)

\* the fields declared int
IntFields(cls) == IF cls = "CFSWSWP" THEN {13} ELSE {}

\* the fields of a call, each in its declared representation
Fields(c) ==
    [k \in 1..Len(c.args) |->
        IF k \in IntFields(c.cls) THEN int(c.args[k]) ELSE float(c.args[k])]

\* C7: an object whose constructor has only required fields emits
\* [op_type, tag, field1, field2, ...] in the declared order and nothing else.
C7_RequiredFieldsInOrder ==
    \A i \in Built :
        calls[i].cls \in RequiredOnly
            => calls[i].params = <<OpTypeOf(calls[i].cls), calls[i].tag>> \o Fields(calls[i])

\* a SAWS object built second: its ten fields follow op_type and tag 2
C7_Witness ==
    /\ Len(calls) = 2
    /\ calls[2].cls = "SAWS" /\ calls[2].res = "ok"
    /\ calls[2].tag = PyInt(2)
    /\ Len(calls[2].params) = 12
    /\ calls[2].params[4] = PyFloat(25, -1)

\* ---- C8
\* the tokens of a flagged packet: nothing when left out, the flag and the
\* elements in order when given
PacketTokens(flag, x) == IF Given(x) THEN <<PyStr(flag)>> \o x[2] ELSE <<>>

\* C8: ElasticMultiLinear emits "-strain" then the elements of strain, and
\* "-stress" then the elements of stress, each only when the list is given;
\* Parallel emits "-factor" then the elements of factor_args when given.
C8_FlaggedPackets ==
    \A i \in Built :
        LET c == calls[i] IN
        /\ c.cls = "ElasticMultiLinear"
            => SubSeq(c.params, 4, Len(c.params)) =
                   PacketTokens("-strain", c.args[2]) \o PacketTokens("-stress", c.args[3])
        /\ c.cls = "Parallel"
            => SubSeq(c.params, 3, Len(c.params)) =
                   c.args[1][2] \o PacketTokens("-factor", c.args[2])

\* stress=[0,1,2] with strain left out: the tokens end "-stress", 0, 1, 2
C8_Witness ==
    \E i \in Built :
        /\ calls[i].cls = "ElasticMultiLinear"
        /\ calls[i].args = <<Omitted, Omitted, Stress>>
        /\ SubSeq(calls[i].params, 4, 7) = <<PyStr("-stress"), PyInt(0), PyInt(1), PyInt(2)>>
        /\ Len(calls[i].params) = 7

\* ---- C9
\* the (flag, value) pair of a flagged optional: nothing when left out
PairTokens(flag, x) == IF Given(x) THEN <<PyStr(flag), float(x)>> ELSE <<>>

\* C9: after the reference, Fatigue emits the pairs of -E0, -m, -min, -max
\* and MinMax those of -min, -max, one pair per field given, in that order.
C9_FlaggedBlocksIndependent ==
    \A i \in Built :
        LET c == calls[i] IN
        /\ c.cls = "Fatigue"
            => SubSeq(c.params, 4, Len(c.params)) =
                   PairTokens("-E0", c.args[2]) \o PairTokens("-m", c.args[3])
                       \o PairTokens("-min", c.args[4]) \o PairTokens("-max", c.args[5])
        /\ c.cls = "MinMax"
            => SubSeq(c.params, 4, Len(c.params)) =
                   PairTokens("-min", c.args[2]) \o PairTokens("-max", c.args[3])

\* Fatigue with m and max given, e0 and min left out
C9_Witness ==
    \E i \in Built :
        /\ calls[i].cls = "Fatigue"
        /\ ~Given(calls[i].args[2]) /\ Given(calls[i].args[3])
        /\ ~Given(calls[i].args[4]) /\ Given(calls[i].args[5])
        /\ Len(calls[i].params) = 7
        /\ calls[i].params[4] = PyStr("-m")
        /\ calls[i].params[6] = PyStr("-max")

\* ---- C10
DefaultedClasses ==
    {"Hardening", "Bilin", "SelfCentering", "ViscousDamper", "BilinearOilDamper"}

\* the number of required fields
NRequired(cls) ==
    CASE cls = "Hardening" -> 4
      [] cls = "Bilin" -> 23
      [] cls = "SelfCentering" -> 4
      [] cls = "ViscousDamper" -> 3
      [] cls = "BilinearOilDamper" -> 2

\* the defaults of the optional fields, in order
Defaults(cls) ==
    CASE cls = "Hardening" -> <<PyFloat(0, 0)>>
      [] cls = "Bilin" -> <<PyFloat(0, 0)>>
      [] cls = "SelfCentering" -> <<PyFloat(0, 0), PyFloat(0, 0), None>>
      [] cls = "ViscousDamper" ->
            <<PyFloat(0, 0), PyInt(1), PyFloat(1, -6), PyFloat(1, -10), PyInt(15)>>
      [] cls = "BilinearOilDamper" ->
            <<PyFloat(1, 0), PyFloat(1, 0), PyFloat(0, 0), PyInt(1), PyFloat(1, -6),
              PyFloat(1, -10), PyInt(15)>>

\* no optional argument was passed
NoOptionals(c) == \A k \in (NRequired(c.cls) + 1)..Len(c.args) : c.args[k] = Omitted

\* C10 as claimed: a constructor called without its optional arguments emits
\* only op_type, tag and the required fields.
C10_OnlyRequiredEmitted ==
    \A i \in Built :
        (calls[i].cls \in DefaultedClasses /\ NoOptionals(calls[i]))
            => Len(calls[i].params) = 2 + NRequired(calls[i].cls)

\* C10 amended: called without its optional arguments, a constructor emits
\* op_type, tag, the required fields in their places, and then the default of
\* every optional field whose default is not None; an optional whose default
\* is None (r_bear) is left out.
C10_DefaultsEmitted ==
    \A i \in Built :
        LET c == calls[i]
            n == NRequired(c.cls)
        IN  (c.cls \in DefaultedClasses /\ NoOptionals(c))
                => /\ SubSeq(c.params, 1, 2) = <<PyStr(c.cls), c.tag>>
                   /\ \A k \in 1..n : c.params[2 + k] = float(c.args[k])
                   /\ SubSeq(c.params, n + 3, Len(c.params)) =
                          SelectSeq(Defaults(c.cls), LAMBDA d : d # None)

\* Hardening without eta: seven tokens, the last one the default 0.0
C10_Witness ==
    \E i \in Built :
        /\ calls[i].cls = "Hardening"
        /\ calls[i].args[5] = Omitted
        /\ Len(calls[i].params) = 7
        /\ calls[i].params[7] = PyFloat(0, 0)

\* ---- C11
\* the token lists of the calls that returned an object, in call order
ParamsOfBuilt ==
    LET ok == SelectSeq(calls, LAMBDA c : c.res = "ok")
    IN  [i \in 1..Len(ok) |-> ok[i].params]

\* the backend holds one command per successful construction, in call order
DispatchInCallOrder == sent = ParamsOfBuilt

\* the tags of the material commands grow along the dispatch order
MaterialTagsIncrease ==
    \A i, j \in Built :
        (/\ i < j
         /\ calls[i].cls \in OtherClasses \cup StandardClasses
         /\ calls[j].cls \in OtherClasses \cup StandardClasses)
            => calls[i].tag[2] < calls[j].tag[2]

\* C11: the backend receives exactly one command per successful construction,
\* in construction order, and the material tags it sees are increasing.
C11_DispatchedInConstructionOrder == DispatchInCallOrder /\ MaterialTagsIncrease

\* ---- C12
\* the reference argument of the call is not an object a constructor returned
BadRef(c) == c.cls \in RefClasses /\ c.args[RefArg(c.cls)][1] # "obj"

\* C12: a construction whose reference has no valid tag fails with a
\* ReferenceError.
C12_BadReferenceIsReferenceError ==
    \A i \in 1..Len(calls) : BadRef(calls[i]) => calls[i].res = "ReferenceError"

\* ---- C13
\* this step is a constructor call; Last is the call it made
Called == Len(calls') = Len(calls) + 1
Last == calls'[Len(calls')]

\* C13: a construction that fails on its reference leaves the material
\* counter at the value it had before the call.
C13_BadReferenceKeepsCounter ==
    [][(Called /\ BadRef(Last) /\ Last.res # "ok") => osi'.n_mat = osi.n_mat]_vars

\* ---- C15
\* some call so far raised
SomeFailed == \E i \in 1..Len(calls) : calls[i].res # "ok"

NonEmptyPacketTokens(flag, x) ==
    IF Given(x) /\ x # Empty THEN <<PyStr(flag)>> \o x[2] ELSE <<>>

\* C19: a packet passed as an empty list contributes no token: the tokens
\* are those of the call without it.
C19_EmptyPacketNoTokens ==
    \A i \in Built :
        LET c == calls[i] IN
        /\ (c.cls = "ElasticMultiLinear" /\ Empty \in {c.args[2], c.args[3]})
            => SubSeq(c.params, 4, Len(c.params)) =
                   NonEmptyPacketTokens("-strain", c.args[2])
                       \o NonEmptyPacketTokens("-stress", c.args[3])
        /\ (c.cls = "Parallel" /\ c.args[2] = Empty)
            => SubSeq(c.params, 3, Len(c.params)) = c.args[1][2]
        /\ (c.cls = "Circ" /\ c.args[5] = Empty)
            => SubSeq(c.params, 7, Len(c.params)) = <<float(c.args[4])>>
        /\ (c.cls = "MultiLinear" /\ c.args[1] = Empty)
            => c.params = <<PyStr("MultiLinear"), c.tag>>

\* the part of C19 about the packets that carry no flag (Circ ang,
\* MultiLinear pts)
UnflaggedEmptyPacketNoTokens ==
    \A i \in Built :
        LET c == calls[i] IN
        /\ (c.cls = "Circ" /\ c.args[5] = Empty)
            => SubSeq(c.params, 7, Len(c.params)) = <<float(c.args[4])>>
        /\ (c.cls = "MultiLinear" /\ c.args[1] = Empty)
            => c.params = <<PyStr("MultiLinear"), c.tag>>

\* ---- C20
OrderedClasses == {"Cast", "ElasticBilin", "SelfCentering"}

\* the number of fields emitted before the ordered optionals
NBeforeOrdered(cls) ==
    CASE cls = "Cast" -> 10
      [] cls = "ElasticBilin" -> 3
      [] cls = "SelfCentering" -> 6

\* the defaults of the ordered optionals, in declared order
OrderedDefaults(cls) ==
    CASE cls = "Cast" -> <<None, PyFloat(1, 0), None, PyFloat(1, 0)>>
      [] cls = "ElasticBilin" -> <<None, None, None>>
      [] cls = "SelfCentering" -> <<None>>

\* the places of the ordered optionals among the arguments
OrderedArg(cls, k) == NBeforeOrdered(cls) + k

\* the values the ordered optionals hold: the argument, or the default
OrderedValues(c) ==
    [k \in 1..Len(OrderedDefaults(c.cls)) |->
        Default(c.args[OrderedArg(c.cls, k)], OrderedDefaults(c.cls)[k])]

\* the length of the longest prefix of s without a None
PresentPrefix(s) ==
    CHOOSE k \in 0..Len(s) :
        /\ \A j \in 1..k : s[j] # None
        /\ \A n \in (k + 1)..Len(s) : \E j \in 1..n : s[j] = None

\* C20: after the fields before them, Cast, ElasticBilin and SelfCentering
\* emit the longest prefix of their ordered optionals in which every field
\* holds a value (its argument, or its default when that is not None), and
\* nothing after it.
C20_LongestPresentPrefix ==
    \A i \in Built :
        LET c == calls[i]
            n == NBeforeOrdered(c.cls)
            v == OrderedValues(c)
        IN  c.cls \in OrderedClasses
                => /\ Len(c.params) = 2 + n + PresentPrefix(v)
                   /\ \A k \in 1..PresentPrefix(v) : c.params[2 + n + k] = float(v[k])

\* Cast with a1 and a4 given, a2 and a3 left out: a1 and the default of a2
\* are emitted, a4 is not
C20_Witness ==
    \E i \in Built :
        /\ calls[i].cls = "Cast"
        /\ calls[i].args[11] = V(11) /\ calls[i].args[12] = Omitted
        /\ calls[i].args[13] = Omitted /\ calls[i].args[14] = V(14)
        /\ SubSeq(calls[i].params, 13, Len(calls[i].params)) = <<float(V(11)), PyFloat(1, 0)>>

ForeignRef(c) ==
    /\ c.cls \in RefClasses
    /\ c.args[RefArg(c.cls)][1] = "obj"
    /\ calls[c.args[RefArg(c.cls)][2]].ctx # c.ctx

\* C14: a construction with one instance whose reference was built with
\* another instance is rejected with a ContextMismatchError, so that no
\* command with the other instance's tag reaches this instance's backend.
C14_ForeignReferenceRejected ==
    \A i \in 1..Len(calls) :
        ForeignRef(calls[i]) => calls[i].res = "ContextMismatchError"

\* ---- C16
\* the object built by the i-th call as it is now: its tag, its token list
\* and the lists its fields hold
ObjectNow(i) ==
    [tag |-> calls[i].tag,
     params |-> calls[i].params,
     fields |-> [p \in DOMAIN calls[i].held |-> PyList(heap[calls[i].held[p]])]]

\* C16: no step changes the tag, the fields or the token list of an object
\* built before it, a change by the caller of a list it had passed included.
C16_NeverMutated == [][\A i \in Built : ObjectNow(i)' = ObjectNow(i)]_vars

\* the part of C16 about the tag and the token list
TokensNeverMutated ==
    [][\A i \in Built : calls'[i].tag = calls[i].tag /\ calls'[i].params = calls[i].params]_vars

\* ---- C18
\* C18: two objects built on one instance hold the same tag only if the
\* constructions interleaved, one thread advancing the counter between
\* another's increment and its read of the tag; with the constructions one
\* after the other no two objects share a tag.
C18_SameTagOnlyWhenRaced ==
    (\E i, j \in Built : i < j /\ calls[i].tag = calls[j].tag) => raced

\* two ImpactMaterial objects built by the two threads, both with tag 2
C18_Witness ==
    /\ Len(calls) = 2
    /\ calls[1].cls = "ImpactMaterial" /\ calls[2].cls = "ImpactMaterial"
    /\ calls[1].tag = PyInt(2) /\ calls[2].tag = PyInt(2)
    /\ osi.n_mat = 2

\* ---- C21
\* C21: ElasticPP never dispatches [op_type, tag, big_e, epsy_p, eps0]: a call
\* that leaves epsy_n out dispatches nothing with eps0 in the place of
\* epsy_n, and every ElasticPP list dispatched has epsy_n as its fifth token
\* and eps0 as its sixth.
C21_Eps0NeverInPlaceOfEpsyN ==
    \A i \in 1..Len(calls) :
        calls[i].cls = "ElasticPP" =>
            LET c == calls[i]
                eps0 == float(Default(c.args[4], PyFloat(0, 0)))
            IN  /\ ~Given(c.args[3]) =>
                      \A k \in 1..Len(sent) :
                          sent[k] # <<PyStr("ElasticPP"), c.tag, float(c.args[1]),
                                      float(c.args[2]), eps0>>
                /\ c.res = "ok" =>
                      /\ Len(c.params) = 6
                      /\ c.params[5] = float(c.args[3])
                      /\ c.params[6] = eps0

\* an ElasticPP call with eps0 given and epsy_n left out has been made and
\* dispatched nothing, after an ElasticPP object with both was built
C21_Witness ==
    /\ Len(calls) = 2
    /\ calls[1].cls = "ElasticPP" /\ calls[1].res = "ok"
    /\ calls[2].cls = "ElasticPP"
    /\ calls[2].args[3] = Omitted /\ calls[2].args[4] = V(4)
    /\ calls[2].res = "TypeError"
    /\ Len(sent) = 1

\* ---- C22
\* the counter a construction of cls advances, as it stands in o
CounterOf(o, cls) == IF cls \in StandardClasses THEN o.n_mats ELSE o.n_mat

\* C22: every construction that dispatches sends a list whose first token is
\* the op_type and whose second is the object's stored tag, and that tag is
\* the value of the object's counter right after this construction's
\* increment.
C22_OpTypeThenOwnTag ==
    [][(Called /\ Last.res = "ok") =>
          /\ Len(sent') = Len(sent) + 1
          /\ sent'[Len(sent')][1] = OpTypeOf(Last.cls)
          /\ sent'[Len(sent')][2] = Last.tag
          /\ Last.tag = PyInt(CounterOf(osi', Last.cls))
          /\ CounterOf(osi', Last.cls) = CounterOf(osi, Last.cls) + 1]_vars

\* the part of C22 that the source keeps: op_type first, then the stored tag
OpTypeThenStoredTag ==
    \A i \in Built :
        /\ calls[i].params[1] = OpTypeOf(calls[i].cls)
        /\ calls[i].params[2] = calls[i].tag

\* ---- C23
\* the first ten fields of BarSlip as they are stored: nb an int, the others
\* floats
BarSlipLeading(c) == [k \in 1..10 |-> IF k = 8 THEN int(c.args[k]) ELSE float(c.args[k])]

\* the optional fields of BarSlip as they are stored, a default for each one
\* left out
BarSlipOptionals(c) ==
    <<float(Default(c.args[13], PyFloat(1, 0))), Default(c.args[14], PyStr("Damage")),
      Default(c.args[15], PyStr("psi"))>>

\* C23 as stated: the tokens of BarSlip after the tag are the twelve required
\* fields in the order of the signature and only then anc_lratio, damage, unit.
C23_RequiredBeforeOptional ==
    \A i \in Built :
        calls[i].cls = "BarSlip" =>
            SubSeq(calls[i].params, 3, Len(calls[i].params)) =
                BarSlipLeading(calls[i]) \o <<calls[i].args[11], calls[i].args[12]>>
                    \o BarSlipOptionals(calls[i])

\* C23, amended: the tokens of BarSlip after the tag are fc, fy, es, fu, eh,
\* db, ld, nb, depth, height, then anc_lratio (1.0 when left out), then
\* bs_flag, otype, damage, unit: seventeen tokens whatever is left out.
C23_BarSlipTokenOrder ==
    \A i \in Built :
        calls[i].cls = "BarSlip" =>
            LET p == calls[i].params
                opt == BarSlipOptionals(calls[i])
            IN  /\ Len(p) = 17
                /\ SubSeq(p, 3, 12) = BarSlipLeading(calls[i])
                /\ p[13] = opt[1]
                /\ p[14] = calls[i].args[11]
                /\ p[15] = calls[i].args[12]
                /\ p[16] = opt[2]
                /\ p[17] = opt[3]

\* two BarSlip objects are built, one with its optionals given and one
\* without: anc_lratio stands before bs_flag in both
C23_Witness ==
    /\ Len(calls) = 2
    /\ calls[1].cls = "BarSlip" /\ calls[1].res = "ok"
    /\ calls[2].cls = "BarSlip" /\ calls[2].res = "ok"
    /\ calls[1].args[13] = V(13) /\ calls[1].params[13] = float(V(13))
    /\ calls[2].args[13] = Omitted /\ calls[2].params[13] = PyFloat(1, 0)
    /\ calls[2].params[14] = PyStr("Strong")

\* ---- C24
\* C24: a list passed to Straight (start, end), Circ (center, ang) or
\* MultiLinear (pts) is emitted as its elements, in their order, at the place
\* of the field and without a flag; ang contributes only when given; the list
\* has the fixed tokens plus one token per element.
C24_PacketsExpandInPlace ==
    \A i \in Built :
        LET c == calls[i]
            p == c.params
        IN
        /\ c.cls = "Straight" =>
              /\ p = <<PyStr("straight"), c.tag, int(c.args[1]), float(c.args[2])>>
                         \o c.args[3][2] \o c.args[4][2]
              /\ Len(p) = 4 + Len(c.args[3][2]) + Len(c.args[4][2])
        /\ c.cls = "Circ" =>
              LET ang == IF Given(c.args[5]) THEN c.args[5][2] ELSE <<>>
              IN  /\ p = <<PyStr("circ"), c.tag, int(c.args[1]), float(c.args[2])>>
                             \o c.args[3][2] \o <<float(c.args[4])>> \o ang
                  /\ Len(p) = 5 + Len(c.args[3][2]) + Len(ang)
        /\ c.cls = "MultiLinear" =>
              /\ p = <<PyStr("MultiLinear"), c.tag>> \o c.args[1][2]
              /\ Len(p) = 2 + Len(c.args[1][2])

\* a MultiLinear of three points and a Circ with its two angles are built:
\* five and nine tokens
C24_Witness ==
    /\ Len(calls) = 2
    /\ calls[1].cls = "MultiLinear" /\ calls[1].args[1] = Pts
    /\ calls[1].res = "ok" /\ Len(calls[1].params) = 5
    /\ calls[2].cls = "Circ" /\ Given(calls[2].args[5]) /\ calls[2].args[5] # Empty
    /\ calls[2].res = "ok" /\ Len(calls[2].params) = 9

\* ---- C25
\* two arguments are equal as inputs of the encoding: equal values, or
\* objects of equal tags
SameField(x, y) ==
    IF x[1] = "obj" /\ y[1] = "obj" THEN calls[x[2]].tag = calls[y[2]].tag ELSE x = y

\* two calls with the same inputs: the class, the fields, the tags of the
\* objects referred to and the counters of the instance as the call began
SameInputs(c, d) ==
    /\ c.cls = d.cls
    /\ Len(c.args) = Len(d.args)
    /\ \A k \in 1..Len(c.args) : SameField(c.args[k], d.args[k])
    /\ c.before = d.before

Wrappers ==
    {"Fatigue", "MinMax", "InitStrainMaterial", "InitStressMaterial", "PathIndependent"}

\* the i-th call built a wrapper of a material of one of the classes in
\* among, itself built earlier with the same instance
WrapsOneOf(i, among) ==
    /\ calls[i].cls \in Wrappers
    /\ calls[i].args[1][1] = "obj"
    /\ calls[calls[i].args[1][2]].cls \in among
    /\ calls[calls[i].args[1][2]].ctx = calls[i].ctx

\* C27: the reference token of a wrapper (Fatigue, MinMax,
\* InitStrainMaterial, InitStressMaterial, PathIndependent) of a material
\* built earlier with the same instance is strictly smaller than the
\* wrapper's own tag.
C27_ReferenceBelowOwnTag ==
    \A i \in Built :
        WrapsOneOf(i, OtherClasses \cup StandardClasses)
            => calls[i].params[3][2] < calls[i].tag[2]

\* the part of C27 about wrappers of other.py materials
OtherReferenceBelowOwnTag ==
    \A i \in Built : WrapsOneOf(i, OtherClasses) => calls[i].params[3][2] < calls[i].tag[2]

\* ---- C28
\* the arguments of a call that go through float() or int(): the fields of
\* Hardening, the numeric fields of Circ, the required fields of
\* SelfCentering
NumericArgs(cls) ==
    CASE cls = "Hardening" -> 1..5
      [] cls = "Circ" -> {1, 2, 4}
      [] cls = "SelfCentering" -> 1..6
      [] OTHER -> {}

\* a numeric argument of the call cannot be coerced: it is None
CannotCoerce(c) == \E k \in NumericArgs(c.cls) : c.args[k] = None

\* the instance after the i-th call: as the next call found it, or as it is
\* now
OsiAfter(i) == IF i < Len(calls) THEN calls[i + 1].before ELSE osi

\* C28: a construction of other.py or layer.py with a numeric argument that
\* float() or int() rejects fails with the TypeError of the coercion, before
\* the counter is advanced: the counters are those the call found, the
\* object has no tag and nothing is dispatched for it.
C28_CoercionFailsBeforeCounter ==
    \A i \in 1..Len(calls) :
        CannotCoerce(calls[i])
            => /\ calls[i].res = "TypeError"
               /\ calls[i].tag = None
               /\ calls[i].params = <<>>
               /\ OsiAfter(i) = calls[i].before
               /\ Len(sent) = Cardinality({j \in Built : j # i})

\* a Circ was built, then a Circ with radius None or a SelfCentering with
\* k2 None failed: the counter still stands at 1
C28_Witness ==
    /\ Len(calls) = 2
    /\ calls[1].cls = "Circ" /\ calls[1].res = "ok"
    /\ calls[2].cls \in {"Circ", "SelfCentering"} /\ CannotCoerce(calls[2])
    /\ calls[2].res = "TypeError"
    /\ osi.n_mat = 1
    /\ Len(sent) = 1

\* ---- C29
\* C29: a construction with one instance leaves the other instance as it
\* was, its counters and what its backends received, so that the tag of an
\* object counts the objects built with its own instance only, whatever was
\* built with the other in between.
C29_OtherContextUnchanged ==
    /\ [](\A i \in Built :
              calls[i].tag =
                  PyInt(Cardinality({j \in Built : j <= i /\ calls[j].ctx = calls[i].ctx})))
    /\ [][Called => (parked' = parked /\ cur' = cur)]_vars

\* an ECC01 with A, a Straight with B, then a second object with A: it has
\* tag 2 and B's counter still stands at 1
C29_Witness ==
    /\ Len(calls) = 3
    /\ calls[1].cls = "ECC01" /\ calls[1].ctx = "A"
    /\ calls[2].cls = "Straight" /\ calls[2].ctx = "B" /\ calls[2].tag = PyInt(1)
    /\ calls[3].ctx = "A" /\ calls[3].tag = PyInt(2)
    /\ cur = "A"
    /\ osi.n_mat = 2
    /\ parked.osi.n_mat = 1

\* ---- C26
\* the commands built before the k-th whose object the k-th was passed and
\* whose class is one of ops
Referenced(k, ops) ==
    {j \in 1..(k - 1) :
        /\ site.log[j].op \in ops
        /\ \E i \in 1..Len(site.log[k].uses) : site.log[k].uses[i] = site.log[j].def}

\* how many objects of the classes ops a command of class op is passed
PassedTo(op, ops) ==
    CASE ops = {"Node"} ->
            (CASE op = "Quad" -> 4
               [] op \in {"EqualDOF", "ZeroLength"} -> 2
               [] op \in {"Fix", "Load", "NodeToArrayCache"} -> 1
               [] OTHER -> 0)
      [] ops = {"PressureIndependMultiYield", "ElasticIsotropic"} ->
            (IF op \in {"Quad", "update_material_stage"} THEN 1 ELSE 0)
      [] ops = {"Viscous"} -> (IF op = "ZeroLength" THEN 1 ELSE 0)
      [] ops = {"Path"} -> (IF op = "Plain" THEN 1 ELSE 0)

\* C26: in site_response every command that is passed an object is built
\* after that object: the soil material before the Quad of its layer, the
\* Viscous material before the ZeroLength, the nodes before the EqualDOF, Fix,
\* Load, element and recorder that name them, the Path before the Plain
\* pattern; no statement finds a name unbound.
C26_ReferencedBuiltEarlier ==
    /\ site.pc # "KeyError"
    /\ \A k \in 1..Len(site.log) :
           /\ \A i \in 1..Len(site.log[k].uses) :
                  \E j \in 1..(k - 1) : site.log[j].def = site.log[k].uses[i]
           /\ \A ops \in {{"Node"}, {"PressureIndependMultiYield", "ElasticIsotropic"},
                          {"Viscous"}, {"Path"}} :
                  Cardinality(Referenced(k, ops)) = PassedTo(site.log[k].op, ops)

\* the call with two layers has returned: the second Quad was passed the
\* second material, built right before it, and the ZeroLength the Viscous
\* material of tag 1
C26_Witness ==
    /\ site.pc = "done"
    /\ site.n = 2
    /\ \E k \in 1..Len(site.log) :
           /\ site.log[k].op = "Quad"
           /\ site.log[k].uses[5] = <<"soil_mats", 1>>
           /\ site.log[k - 1].def = <<"soil_mats", 1>>
    /\ \E k \in 1..Len(site.log) :
           /\ site.log[k].op = "ZeroLength"
           /\ site.log[k - 1].op = "Viscous"
    /\ Len(calls) = 1 /\ calls[1].cls = "Viscous" /\ calls[1].tag = PyInt(1)

\* ---- C30
\* C30: with every analyze(1, analysis_dt) advancing the engine's time by
\* analysis_dt, a call of site_response leaves its loop and returns: the
\* time has reached analysis_time, wipe has been called once, after the last
\* pass and not before, and to_py_file was called once before the first pass.
C30_LoopTerminates ==
    /\ (site.pc # "idle") ~> (site.pc = "done")
    /\ [](site.pc = "done" => (site.wipes = 1 /\ site.time = site.last
                                /\ site.steps = site.last))
    /\ [](site.pc # "done" => site.wipes = 0)
    /\ [](site.pc \in {"loop", "done"} => site.written = 1)
    /\ [](site.pc \in {"idle", "body"} => site.steps = 0)
    /\ [][site'.wipes # site.wipes => (site.pc = "loop" /\ ~(site.time < site.last))]_vars

\* the call has returned after three passes of the loop and one wipe
C30_Witness ==
    /\ site.pc = "done"
    /\ site.last = 3
    /\ site.steps = 3
    /\ site.time = 3
    /\ site.wipes = 1
    /\ site.written = 1

====
